---------------------------- MODULE Spec2Model ----------------------------
(***************************************************************************)
(* ServerMonitor cluster dashboard: the poll / aggregate loop of           *)
(* src/app/cluster/page.tsx (fetchServerData, updateNetworkHistory,        *)
(* cleanupNetworkHistory, the mount effect) and the metrics normalizer of  *)
(* src/utils/numberFormat.ts (formatNumber, formatTemperature,             *)
(* formatServerData).                                                      *)
(*                                                                         *)
(* JSON values.  A scalar is a record [t, v]: t is the JavaScript type     *)
(* ("number", "null", "undefined", the string "N/A") and v the payload.    *)
(* A number is held in thousandths (40.005 is 40005).  A JSON object is a  *)
(* record whose DOMAIN is the set of keys that are present; no object has  *)
(* a key "t".                                                              *)
(***************************************************************************)
EXTENDS Integers, Sequences, FiniteSets, TLC

VARIABLES
    serversData,      \* useState<ServersData>: ip -> payload or {error}
    loading,          \* useState(true)
    networkHistory,   \* useState<{[ip]: NetworkHistoryEntry[]}>
    isMounted,        \* the mount effect's flag
    mainInterval,     \* TRUE while the 1000 ms interval timer is armed
    cleanupInterval,  \* TRUE while the 60000 ms interval timer is armed
    cycles,           \* the invocations of fetchServerData in flight
    started,          \* number of invocations of fetchServerData so far
    clock,            \* wall clock, in seconds (new Date())
    appendLog,        \* history: ip -> every point appended since the last reset
    lastSettle,       \* history: what the last per-host step of a cycle did
    published,        \* history: what the last setServersData(newData) published
    pruneBefore,      \* history: the mapping the last prune sweep was applied to
    sweeps,           \* history: number of prune sweeps applied
    normIn,           \* the argument handed to formatServerData
    normOut,          \* what formatServerData did with it
    rounded           \* a number, then formatNumber of it, then formatNumber of that

vars == <<serversData, loading, networkHistory, isMounted, mainInterval,
          cleanupInterval, cycles, started, clock, appendLog, lastSettle,
          published, pruneBefore, sweeps, normIn, normOut, rounded>>

----------------------------------------------------------------------------
(* Bounds of the model *)

MaxCycles == 2        \* invocations of fetchServerData
MaxClock == 1         \* seconds the wall clock advances
MaxAppends == 31      \* points appended to the history of one host
MaxSideAppends == 2   \* points the other hosts hold meanwhile
MaxSweeps == 2        \* prune sweeps applied to one mapping
MaxOver == 2          \* entries a history handed to the sweep holds beyond 30
MaxMilli == 120       \* the numbers rounded are -0.120 .. 0.120, in steps of 0.001
MaxApplications == 2  \* times formatNumber is applied to its own result
LatencySec == 1       \* seconds a host takes to answer, when it answers

(* Program constants *)

HistoryCap == 30      \* slice(-30)
IntervalSec == 1      \* setInterval(fetchServerData, 1000)
TimeoutSec == 5       \* setTimeout(() => controller.abort(), 5000)

----------------------------------------------------------------------------
(* JavaScript values *)

Num(k) == [t |-> "number", v |-> k]
Null == [t |-> "null", v |-> 0]
Undefined == [t |-> "undefined", v |-> 0]
NA == [t |-> "N/A", v |-> 0]
TypeError == [t |-> "TypeError", v |-> 0]
None == [t |-> "none", v |-> 0]

IsScalar(x) == "t" \in DOMAIN x
IsObject(x) == ~IsScalar(x)
IsNumber(x) == IsScalar(x) /\ x.t = "number"

\* o.f for an object o: undefined when the key is absent
Get(o, f) == IF f \in DOMAIN o THEN o[f] ELSE Undefined

EmptyMap == [k \in {} |-> None]
Put(m, k, x) == [y \in DOMAIN m \cup {k} |-> IF y = k THEN x ELSE m[y]]

Abs(k) == IF k < 0 THEN -k ELSE k
MaxOf(a, b) == IF a >= b THEN a ELSE b

----------------------------------------------------------------------------
(* src/utils/numberFormat.ts *)

\* The decimals d.dd5 of the model's numbers whose IEEE 754 double lies below
\* the decimal (1.005 is 1.00499999999999989...), so that toFixed(2), which
\* rounds the exact value of the double, rounds them down.  40.005, 12.345
\* and 0.005 lie above their decimal and round up.  The list is complete for
\* 0.005 .. 0.195 and holds the larger numbers the payloads use.
BelowTie == {15, 45, 75, 105, 145, 155, 175, 185, 1005, 2675, 23455}

\* Number.prototype.toFixed(2): the digits of the nearest multiple of 0.01 to
\* the double, the larger one on an exact tie, the sign handled apart.  The
\* result is the number of hundredths the string spells.
toFixed2(k) ==
    LET a == Abs(k)
        q == a \div 10
        r == a % 10
        up == r > 5 \/ (r = 5 /\ a \notin BelowTie)
        n == IF up THEN q + 1 ELSE q
    IN  IF k < 0 THEN -n ELSE n

\* Number(string) of a string of hundredths, back in thousandths
ParseNumber(n) == n * 10

\* Rounding up by hand, Math.ceil(num * 100 + 0.5) / 100 where Math.floor was
\* meant: a number that is already rounded moves up by 0.01
formatNumberCeil(num) ==
    IF IsNumber(num) THEN Num(ParseNumber(((num.v + 5) \div 10) + 1)) ELSE TypeError

\* formatNumber: Number(num.toFixed(2)); a TypeError when num has no toFixed.
\* Numbers are compared as numbers: Number("-0.00") is -0, which equals 0.
formatNumber(num) ==
    IF IsNumber(num) THEN Num(ParseNumber(toFixed2(num.v))) ELSE TypeError

\* formatTemperature: 'N/A' is passed through, anything else is toFixed
formatTemperature(temp) ==
    IF temp = NA THEN NA
    ELSE IF IsNumber(temp) THEN Num(ParseNumber(toFixed2(temp.v)))
    ELSE TypeError

\* isX86TemperatureInfo of @/types/system: the variant is chosen by which
\* sensor fields are present
isX86TemperatureInfo(temp) ==
    "gpu" \in DOMAIN temp /\ "motherboard" \in DOMAIN temp

X86Fields == {"cpu", "gpu", "motherboard"}
ARMFields == {"cpu", "rp1", "ssd"}

ObjectSections == {"cpu", "memory", "disk", "network", "uptime", "temperature", "fan"}

\* Every data.<section>.<field> read of formatServerData finds an object to
\* read from (a read from undefined or null is a TypeError)
SectionsReadable(data) ==
    /\ \A f \in ObjectSections : IsObject(Get(data, f))
    /\ IsObject(Get(data.network, "errorRates"))
    /\ "processes" \in DOMAIN data

formatProcess(process) ==
    [f \in DOMAIN process \cup {"cpu", "memory"} |->
        IF f = "cpu" THEN formatNumber(Get(process, "cpu"))
        ELSE IF f = "memory" THEN formatNumber(Get(process, "memory"))
        ELSE process[f]]

\* The object literal of formatServerData, a TypeError standing where the
\* evaluation of a field throws
Formatted(data) ==
    [cpu |-> [usage |-> formatNumber(Get(data.cpu, "usage")),
              cores |-> Get(data.cpu, "cores"),
              temperature |-> formatTemperature(Get(data.cpu, "temperature"))],
     memory |-> [used |-> formatNumber(Get(data.memory, "used")),
                 total |-> Get(data.memory, "total"),
                 percentage |-> formatNumber(Get(data.memory, "percentage"))],
     disk |-> [used |-> formatNumber(Get(data.disk, "used")),
               total |-> Get(data.disk, "total"),
               percentage |-> formatNumber(Get(data.disk, "percentage"))],
     network |-> [download |-> formatNumber(Get(data.network, "download")),
                  upload |-> formatNumber(Get(data.network, "upload")),
                  ping |-> formatNumber(Get(data.network, "ping")),
                  errorRates |-> [rx |-> Get(data.network.errorRates, "rx"),
                                  tx |-> Get(data.network.errorRates, "tx")]],
     uptime |-> [days |-> Get(data.uptime, "days"),
                 hours |-> Get(data.uptime, "hours"),
                 minutes |-> Get(data.uptime, "minutes")],
     temperature |->
        IF isX86TemperatureInfo(data.temperature)
        THEN [f \in X86Fields |-> formatTemperature(Get(data.temperature, f))]
        ELSE [f \in ARMFields |-> formatTemperature(Get(data.temperature, f))],
     fan |-> [cpu |-> formatNumber(Get(data.fan, "cpu")),
              case1 |-> formatNumber(Get(data.fan, "case1")),
              case2 |-> formatNumber(Get(data.fan, "case2"))],
     processes |-> [i \in DOMAIN data.processes |-> formatProcess(data.processes[i])]]

\* Some formatNumber / formatTemperature call of the literal threw
SomeFieldThrew(out) ==
    \/ TypeError \in {out.cpu.usage, out.cpu.temperature, out.memory.used,
                      out.memory.percentage, out.disk.used, out.disk.percentage,
                      out.network.download, out.network.upload, out.network.ping,
                      out.fan.cpu, out.fan.case1, out.fan.case2}
    \/ \E f \in DOMAIN out.temperature : out.temperature[f] = TypeError
    \/ \E i \in DOMAIN out.processes :
          TypeError \in {out.processes[i].cpu, out.processes[i].memory}

Threw == [threw |-> TRUE, val |-> None]
Returned(x) == [threw |-> FALSE, val |-> x]

\* formatServerData: what the call does, a return value or an exception
formatServerData(data) ==
    IF IsScalar(data) THEN Returned(data)
    ELSE IF ~SectionsReadable(data) THEN Threw
    ELSE IF SomeFieldThrew(Formatted(data)) THEN Threw
    ELSE Returned(Formatted(data))

----------------------------------------------------------------------------
(* src/app/cluster/page.tsx: the host list and the history ring buffer *)

\* The compiled-in host list: the first two of its four servers, one of each
\* type (intel, rpi)
servers == <<"ruthcloud.xyz", "cluster0.ruthcloud.xyz">>
ServerIps == {servers[i] : i \in DOMAIN servers}

\* Array.prototype.slice(-n)
SliceLast(s, n) == IF Len(s) <= n THEN s ELSE SubSeq(s, Len(s) - n + 1, Len(s))

\* Array.prototype.slice(0, n): the mutation that keeps the oldest entries
SliceFirst(s, n) == IF Len(s) <= n THEN s ELSE SubSeq(s, 1, n)

\* x || 0
Falsy(x) == IsScalar(x) /\ (x.t \in {"undefined", "null"} \/ (x.t = "number" /\ x.v = 0))
OrZero(x) == IF Falsy(x) THEN Num(0) ELSE x

\* networkData?.f
OptGet(networkData, f) == IF IsScalar(networkData) THEN Undefined ELSE Get(networkData, f)

\* toLocaleTimeString('ko-KR', {hour, minute, second}): the time of day, to
\* the second; the date is dropped
SecondsPerDay == 86400
TimeString(now) == now % SecondsPerDay

NetworkHistoryEntry(networkData, now) ==
    [time |-> TimeString(now),
     download |-> OrZero(OptGet(networkData, "download")),
     upload |-> OrZero(OptGet(networkData, "upload"))]

updateKeepsOldest(prev, serverIp, networkData, now) ==
    LET serverHistory == IF serverIp \in DOMAIN prev THEN prev[serverIp] ELSE <<>>
        newHistory == Append(serverHistory, NetworkHistoryEntry(networkData, now))
    IN  Put(prev, serverIp, SliceFirst(newHistory, HistoryCap))

\* The updater updateNetworkHistory hands to setNetworkHistory
updateNetworkHistory(prev, serverIp, networkData, now) ==
    LET serverHistory == IF serverIp \in DOMAIN prev THEN prev[serverIp] ELSE <<>>
        newHistory == Append(serverHistory, NetworkHistoryEntry(networkData, now))
    IN  Put(prev, serverIp, SliceLast(newHistory, HistoryCap))

cleanupDropsOldest(prev) ==
    [serverIp \in DOMAIN prev |->
        IF Len(prev[serverIp]) > 0 THEN Tail(prev[serverIp]) ELSE prev[serverIp]]

\* The updater cleanupNetworkHistory hands to setNetworkHistory
cleanupNetworkHistory(prev) ==
    [serverIp \in DOMAIN prev |->
        IF Len(prev[serverIp]) > HistoryCap
        THEN SliceLast(prev[serverIp], HistoryCap)
        ELSE prev[serverIp]]

----------------------------------------------------------------------------
(* What a host's /api/system endpoint can answer *)

\* A well-formed payload of an ARM host, its numbers not yet rounded
RawPayload ==
    [cpu |-> [usage |-> Num(45678), cores |-> Num(4000), temperature |-> Num(51234)],
     memory |-> [used |-> Num(3456789), total |-> Num(8192000), percentage |-> Num(42197)],
     disk |-> [used |-> Num(120555), total |-> Num(512000), percentage |-> Num(23546)],
     network |-> [download |-> Num(1234), upload |-> Num(567), ping |-> Num(12345),
                  errorRates |-> [rx |-> "0.00", tx |-> "0.01"]],
     uptime |-> [days |-> Num(3000), hours |-> Num(4000), minutes |-> Num(5000)],
     temperature |-> [cpu |-> Num(40005), rp1 |-> Num(38000), ssd |-> Num(35129)],
     fan |-> [cpu |-> Num(1200000), case1 |-> Num(0), case2 |-> Num(0)],
     processes |-> <<[name |-> "node", cpu |-> Num(12345), memory |-> Num(3141)]>>]

Without(o, f) == [k \in DOMAIN o \ {f} |-> o[k]]

\* The same payload from an agent that reports no network section
PayloadNoNetwork == Without(RawPayload, "network")

\* A body that is not JSON
Unparsable == [t |-> "unparsable", v |-> 0]

\* The bodies a 2xx response can carry; Null is the JSON text null
Bodies == {RawPayload, PayloadNoNetwork, Null, Unparsable}

----------------------------------------------------------------------------
(* src/app/cluster/page.tsx: fetchServerData and the mount effect *)

\* The two error statuses fetchServerData stores
FetchFailedAsConnection == [error |-> "Connection failed"]
FetchFailed == [error |-> "Failed to fetch"]
ConnectionFailed == [error |-> "Connection failed"]

AssignStatusLosesErrors(newData, ip, status) ==
    IF "error" \in DOMAIN status THEN newData ELSE Put(newData, ip, status)

\* newData[server.ip] = status
AssignStatus(newData, ip, status) == Put(newData, ip, status)

\* An invocation of fetchServerData suspended at its first await: newData is
\* empty and the request to the first server is in flight.  elapsed sums the
\* time the invocation has spent awaiting fetch, longest is the longest of
\* these waits, outcomes records how each server's request ended.  timer
\* tells whether the request's 5000 ms abort timer is armed, waited how long
\* the request has been outstanding since its response headers arrived.
NewCycle(id, initial) ==
    [id |-> id, initial |-> initial, idx |-> 1, pc |-> "fetch",
     newData |-> EmptyMap, elapsed |-> 0, longest |-> 0, outcomes |-> EmptyMap,
     timer |-> TRUE, waited |-> 0]

Outcome(kind, body) == [kind |-> kind, body |-> body]

\* The invocation whose newData serversData holds (id 0 before any), and how
\* long that invocation took
LastPublished ==
    IF published = None THEN [id |-> 0, elapsed |-> 0]
    ELSE [id |-> published.id, elapsed |-> published.elapsed]

\* The rest of the loop body's iteration after the status of servers[c.idx]
\* is known: store it, then either start the request to the next server or,
\* after the last one, publish newData (setServersData, setLoading).  The
\* initial invocation is awaited by initializeData, which then arms both
\* interval timers whatever isMounted has become.
AfterHost(c, status, outcome, d) ==
    LET ip == servers[c.idx]
        nd == AssignStatus(c.newData, ip, status)
        oc == Put(c.outcomes, ip, outcome)
        el == c.elapsed + d
        lg == MaxOf(c.longest, d)
    IN  IF c.idx < Len(servers)
        THEN /\ cycles' = (cycles \ {c}) \cup
                    {[c EXCEPT !.idx = c.idx + 1, !.pc = "fetch", !.newData = nd,
                               !.outcomes = oc, !.elapsed = el, !.longest = lg,
                               !.timer = TRUE, !.waited = 0]}
             /\ UNCHANGED <<serversData, loading, mainInterval, cleanupInterval, published>>
        ELSE /\ cycles' = cycles \ {c}
             /\ serversData' = nd
             /\ loading' = FALSE
             /\ published' = [id |-> c.id, data |-> nd, outcomes |-> oc,
                              elapsed |-> el, longest |-> lg,
                              prevId |-> LastPublished.id,
                              prevElapsed |-> LastPublished.elapsed]
             /\ IF c.initial
                THEN mainInterval' = TRUE /\ cleanupInterval' = TRUE
                ELSE UNCHANGED <<mainInterval, cleanupInterval>>

\* await fetch(url, {signal}) rejects: the 5000 ms timer aborted the request
\* ("timeout"), or the transport failed ("transport").  The catch block
\* stores 'Connection failed'.
FetchRejects(c, kind) ==
    /\ c \in cycles /\ c.pc = "fetch"
    /\ kind \in {"timeout", "transport"}
    /\ kind = "timeout" => c.timer
    /\ AfterHost(c, ConnectionFailed, Outcome(kind, None),
                 IF kind = "timeout" THEN TimeoutSec ELSE LatencySec)
    /\ lastSettle' = [ip |-> servers[c.idx], kind |-> kind, body |-> None, appended |-> <<>>]
    /\ UNCHANGED <<networkHistory, appendLog, isMounted, started, clock,
                   pruneBefore, sweeps, normIn, normOut, rounded>>

\* await fetch resolves with a response whose ok is false
FetchNotOk(c) ==
    /\ c \in cycles /\ c.pc = "fetch"
    /\ AfterHost(c, FetchFailed, Outcome("non2xx", None), LatencySec)
    /\ lastSettle' = [ip |-> servers[c.idx], kind |-> "non2xx", body |-> None, appended |-> <<>>]
    /\ UNCHANGED <<networkHistory, appendLog, isMounted, started, clock,
                   pruneBefore, sweeps, normIn, normOut, rounded>>

\* await fetch resolves with a response whose ok is true: the timer is
\* cleared and response.json() is awaited
FetchOk(c) ==
    /\ c \in cycles /\ c.pc = "fetch"
    /\ cycles' = (cycles \ {c}) \cup
            {[c EXCEPT !.pc = "json", !.elapsed = c.elapsed + LatencySec,
                       !.longest = MaxOf(c.longest, LatencySec),
                       !.timer = FALSE, !.waited = LatencySec]}
    /\ UNCHANGED <<serversData, loading, networkHistory, isMounted, mainInterval,
                   cleanupInterval, started, clock, appendLog, lastSettle, published,
                   pruneBefore, sweeps, normIn, normOut, rounded>>

\* await response.json() rejects (the body is not JSON), or resolves with
\* null, whose .network read throws after newData[server.ip] was assigned:
\* both end in the catch block
JsonThrows(c, body) ==
    /\ c \in cycles /\ c.pc = "json"
    /\ body \in {Unparsable, Null}
    /\ LET kind == IF body = Unparsable THEN "unparsable" ELSE "nullbody"
       IN  /\ AfterHost(c, ConnectionFailed, Outcome(kind, body), 0)
           /\ lastSettle' = [ip |-> servers[c.idx], kind |-> kind, body |-> body,
                             appended |-> <<>>]
    /\ UNCHANGED <<networkHistory, appendLog, isMounted, started, clock,
                   pruneBefore, sweeps, normIn, normOut, rounded>>

\* await response.json() resolves with an object: it is stored as the
\* server's status and updateNetworkHistory(server.ip, serverData.network)
JsonOk(c, body) ==
    /\ c \in cycles /\ c.pc = "json"
    /\ body \in Bodies /\ IsObject(body)
    /\ LET ip == servers[c.idx]
           entry == NetworkHistoryEntry(Get(body, "network"), clock)
       IN  /\ networkHistory' = updateNetworkHistory(networkHistory, ip,
                                                     Get(body, "network"), clock)
           /\ appendLog' = [appendLog EXCEPT ![ip] = Append(@, entry)]
           /\ lastSettle' = [ip |-> ip, kind |-> "ok", body |-> body,
                             appended |-> <<entry>>]
    /\ AfterHost(c, body, Outcome("ok", body), 0)
    /\ UNCHANGED <<isMounted, started, clock, pruneBefore, sweeps, normIn, normOut, rounded>>

\* A second passes while response.json() is awaited and the body has not
\* arrived.  An armed timer would abort the request when TimeoutSec is
\* reached; with the timer cleared nothing ends the wait.
BodyStalls(c) ==
    /\ c \in cycles /\ c.pc = "json"
    /\ c.timer => c.waited < TimeoutSec
    /\ c.waited <= TimeoutSec
    /\ cycles' = (cycles \ {c}) \cup
            {[c EXCEPT !.waited = c.waited + 1]}
    /\ UNCHANGED <<serversData, loading, networkHistory, isMounted, mainInterval,
                   cleanupInterval, started, clock, appendLog, lastSettle, published,
                   pruneBefore, sweeps, normIn, normOut, rounded>>

\* The 1000 ms interval timer fires: fetchServerData is invoked, whether or
\* not an earlier invocation is still in flight
MainIntervalFires ==
    /\ mainInterval
    /\ started < MaxCycles
    /\ started' = started + 1
    /\ cycles' = cycles \cup {NewCycle(started + 1, FALSE)}
    /\ UNCHANGED <<serversData, loading, networkHistory, isMounted, mainInterval,
                   cleanupInterval, clock, appendLog, lastSettle, published,
                   pruneBefore, sweeps, normIn, normOut, rounded>>

\* The 60000 ms interval timer fires: cleanupNetworkHistory
CleanupIntervalFires ==
    /\ cleanupInterval
    /\ networkHistory' = cleanupNetworkHistory(networkHistory)
    /\ UNCHANGED <<serversData, loading, isMounted, mainInterval, cleanupInterval,
                   cycles, started, clock, appendLog, lastSettle, published,
                   pruneBefore, sweeps, normIn, normOut, rounded>>

\* The cleanup function of the mount effect: clearInterval of whatever the
\* two handles hold at that moment, and both states reset
Teardown ==
    /\ isMounted
    /\ isMounted' = FALSE
    /\ mainInterval' = FALSE
    /\ cleanupInterval' = FALSE
    /\ networkHistory' = EmptyMap
    /\ serversData' = EmptyMap
    /\ appendLog' = [ip \in ServerIps |-> <<>>]
    /\ UNCHANGED <<loading, cycles, started, clock, lastSettle, published,
                   pruneBefore, sweeps, normIn, normOut, rounded>>

\* A second passes on the wall clock
Tick ==
    /\ clock < MaxClock
    /\ clock' = clock + 1
    /\ UNCHANGED <<serversData, loading, networkHistory, isMounted, mainInterval,
                   cleanupInterval, cycles, started, appendLog, lastSettle, published,
                   pruneBefore, sweeps, normIn, normOut, rounded>>

\* The component has mounted and its effect has run: initializeData found
\* isMounted true and awaits the first fetchServerData
Init ==
    /\ serversData = EmptyMap
    /\ loading = TRUE
    /\ networkHistory = EmptyMap
    /\ isMounted = TRUE
    /\ mainInterval = FALSE
    /\ cleanupInterval = FALSE
    /\ cycles = {NewCycle(1, TRUE)}
    /\ started = 1
    /\ clock = 0
    /\ appendLog = [ip \in ServerIps |-> <<>>]
    /\ lastSettle = None
    /\ published = None
    /\ pruneBefore = None
    /\ sweeps = 0
    /\ normIn = None
    /\ normOut = None
    /\ rounded = <<>>

Next ==
    \/ \E c \in cycles, kind \in {"timeout", "transport"} : FetchRejects(c, kind)
    \/ \E c \in cycles : FetchNotOk(c)
    \/ \E c \in cycles : FetchOk(c)
    \/ \E c \in cycles, body \in Bodies : JsonThrows(c, body)
    \/ \E c \in cycles, body \in Bodies : JsonOk(c, body)
    \/ MainIntervalFires
    \/ CleanupIntervalFires
    \/ Teardown

\* The poller: the wall clock is not advanced while it runs, so the history
\* entries it appends all carry the same second (SpecRing advances the clock)
Spec == Init /\ [][Next]_vars

\* The poller with hosts that send their response headers and then keep
\* the body back
NextStall ==
    \/ Next
    \/ \E c \in cycles : BodyStalls(c)

SpecStall == Init /\ [][NextStall]_vars

\* The poller once the initial invocation has published and initializeData
\* has armed both timers: here both servers answered 500 to the initial
\* invocation.  The invocations the 1000 ms timer makes are counted from 1
\* (the initial one is number 0), so that MaxCycles of them can overlap.
InitOverlap ==
    /\ serversData = [ip \in ServerIps |-> FetchFailed]
    /\ loading = FALSE
    /\ networkHistory = EmptyMap
    /\ isMounted = TRUE
    /\ mainInterval = TRUE
    /\ cleanupInterval = TRUE
    /\ cycles = {}
    /\ started = 0
    /\ clock = 0
    /\ appendLog = [ip \in ServerIps |-> <<>>]
    /\ lastSettle = [ip |-> servers[Len(servers)], kind |-> "non2xx", body |-> None,
                     appended |-> <<>>]
    /\ published = [id |-> 0, data |-> [ip \in ServerIps |-> FetchFailed],
                    outcomes |-> [ip \in ServerIps |-> Outcome("non2xx", None)],
                    elapsed |-> Len(servers) * LatencySec, longest |-> LatencySec,
                    prevId |-> 0, prevElapsed |-> 0]
    /\ pruneBefore = None
    /\ sweeps = 0
    /\ normIn = None
    /\ normOut = None
    /\ rounded = <<>>

SpecOverlap == InitOverlap /\ [][Next]_vars

----------------------------------------------------------------------------
(* The history ring buffer on its own: appends and prune sweeps in any order *)

\* updateNetworkHistory(serverIp, networkData) at the current second.  One
\* host at a time is driven up to MaxAppends points; the others hold at most
\* MaxSideAppends meanwhile.
RingAppend(ip, networkData) ==
    /\ Len(appendLog[ip]) < MaxAppends
    /\ Len(appendLog[ip]) >= MaxSideAppends =>
          \A other \in ServerIps \ {ip} : Len(appendLog[other]) <= MaxSideAppends
    /\ networkHistory' = updateNetworkHistory(networkHistory, ip, networkData, clock)
    /\ appendLog' = [appendLog EXCEPT
                        ![ip] = Append(@, NetworkHistoryEntry(networkData, clock))]
    /\ UNCHANGED <<serversData, loading, isMounted, mainInterval, cleanupInterval,
                   cycles, started, clock, lastSettle, published, pruneBefore,
                   sweeps, normIn, normOut, rounded>>

\* cleanupNetworkHistory()
RingPrune ==
    /\ networkHistory' = cleanupNetworkHistory(networkHistory)
    /\ UNCHANGED <<serversData, loading, isMounted, mainInterval, cleanupInterval,
                   cycles, started, clock, appendLog, lastSettle, published,
                   pruneBefore, sweeps, normIn, normOut, rounded>>

InitRing ==
    /\ serversData = EmptyMap
    /\ loading = TRUE
    /\ networkHistory = EmptyMap
    /\ isMounted = TRUE
    /\ mainInterval = FALSE
    /\ cleanupInterval = FALSE
    /\ cycles = {}
    /\ started = 0
    /\ clock = 0
    /\ appendLog = [ip \in ServerIps |-> <<>>]
    /\ lastSettle = None
    /\ published = None
    /\ pruneBefore = None
    /\ sweeps = 0
    /\ normIn = None
    /\ normOut = None
    /\ rounded = <<>>

NextRing ==
    \/ \E ip \in ServerIps : RingAppend(ip, RawPayload.network)
    \/ RingPrune
    \/ Tick

SpecRing == InitRing /\ [][NextRing]_vars

----------------------------------------------------------------------------
(* The prune sweep as a function of an arbitrary history mapping *)

\* A history of n entries, the i-th stamped with second i
StampedHistory(n) ==
    [i \in 1..n |-> [time |-> TimeString(i), download |-> Num(1000 * i),
                     upload |-> Num(i)]]

\* Any set of host keys, each with a history of 0 .. HistoryCap + MaxOver entries
PruneInputs ==
    UNION {[S -> {StampedHistory(n) : n \in 0..(HistoryCap + MaxOver)}] :
              S \in SUBSET ServerIps}

PruneSweep ==
    /\ sweeps < MaxSweeps
    /\ sweeps' = sweeps + 1
    /\ pruneBefore' = networkHistory
    /\ networkHistory' = cleanupNetworkHistory(networkHistory)
    /\ UNCHANGED <<serversData, loading, isMounted, mainInterval, cleanupInterval,
                   cycles, started, clock, appendLog, lastSettle, published,
                   normIn, normOut, rounded>>

InitPrune ==
    /\ serversData = EmptyMap
    /\ loading = TRUE
    /\ networkHistory \in PruneInputs
    /\ isMounted = TRUE
    /\ mainInterval = FALSE
    /\ cleanupInterval = FALSE
    /\ cycles = {}
    /\ started = 0
    /\ clock = 0
    /\ appendLog = [ip \in ServerIps |-> <<>>]
    /\ lastSettle = None
    /\ published = None
    /\ pruneBefore = None
    /\ sweeps = 0
    /\ normIn = None
    /\ normOut = None
    /\ rounded = <<>>

NextPrune == PruneSweep

SpecPrune == InitPrune /\ [][NextPrune]_vars

----------------------------------------------------------------------------
(* The normalizer as a function of the payload *)

SensorFields == {"cpu", "gpu", "motherboard", "rp1", "ssd"}
SensorValues == {Num(40005), Num(38000), Null, NA}

\* Every temperature object over the sensor fields: a field is absent, null,
\* 'N/A' or a number
TemperatureObjects == UNION {[S -> SensorValues] : S \in SUBSET SensorFields}

\* The payload of an ARM host with ssd null, and of an x86 host
ArmPayloadSsdNull ==
    [RawPayload EXCEPT !.temperature = [cpu |-> Num(40005), rp1 |-> Num(38000), ssd |-> Null]]
X86Payload ==
    [RawPayload EXCEPT !.temperature = [cpu |-> Num(45678), gpu |-> Num(50100),
                                        motherboard |-> Num(30000)]]

NormInputs ==
    {[RawPayload EXCEPT !.temperature = t] : t \in TemperatureObjects}
        \cup {RawPayload, PayloadNoNetwork, X86Payload, ArmPayloadSsdNull, Null}

Normalize ==
    /\ normOut = None
    /\ normOut' = formatServerData(normIn)
    /\ UNCHANGED <<serversData, loading, networkHistory, isMounted, mainInterval,
                   cleanupInterval, cycles, started, clock, appendLog, lastSettle,
                   published, pruneBefore, sweeps, normIn, rounded>>

InitNorm ==
    /\ serversData = EmptyMap
    /\ loading = TRUE
    /\ networkHistory = EmptyMap
    /\ isMounted = TRUE
    /\ mainInterval = FALSE
    /\ cleanupInterval = FALSE
    /\ cycles = {}
    /\ started = 0
    /\ clock = 0
    /\ appendLog = [ip \in ServerIps |-> <<>>]
    /\ lastSettle = None
    /\ published = None
    /\ pruneBefore = None
    /\ sweeps = 0
    /\ normIn \in NormInputs
    /\ normOut = None
    /\ rounded = <<>>

NextNorm == Normalize

SpecNorm == InitNorm /\ [][NextNorm]_vars

----------------------------------------------------------------------------
(* formatNumber as a function of the number *)

\* The numbers handed to formatNumber: every thousandth of -MaxMilli .. MaxMilli
\* and the numbers of the payloads, among them the ties 1.005, 2.675, 12.345
RoundInputs ==
    {Num(k) : k \in -MaxMilli..MaxMilli}
        \cup {Num(1005), Num(2675), Num(12345), Num(40005), Num(45678), Num(38000)}

\* formatNumber applied to the last result
RoundAgain ==
    /\ Len(rounded) <= MaxApplications
    /\ rounded' = Append(rounded, formatNumber(rounded[Len(rounded)]))
    /\ UNCHANGED <<serversData, loading, networkHistory, isMounted, mainInterval,
                   cleanupInterval, cycles, started, clock, appendLog, lastSettle,
                   published, pruneBefore, sweeps, normIn, normOut>>

InitRound ==
    /\ serversData = EmptyMap
    /\ loading = TRUE
    /\ networkHistory = EmptyMap
    /\ isMounted = TRUE
    /\ mainInterval = FALSE
    /\ cleanupInterval = FALSE
    /\ cycles = {}
    /\ started = 0
    /\ clock = 0
    /\ appendLog = [ip \in ServerIps |-> <<>>]
    /\ lastSettle = None
    /\ published = None
    /\ pruneBefore = None
    /\ sweeps = 0
    /\ normIn = None
    /\ normOut = None
    /\ \E x \in RoundInputs : rounded = <<x>>

NextRound == RoundAgain

SpecRound == InitRound /\ [][NextRound]_vars

----------------------------------------------------------------------------
(* Properties *)

HistoryOf(ip) == IF ip \in DOMAIN networkHistory THEN networkHistory[ip] ELSE <<>>
Min(a, b) == IF a <= b THEN a ELSE b
IsError(status) == "error" \in DOMAIN status

\* C1: after any interleaving of appends and prune sweeps, every host's
\* history holds at most 30 entries, and they are the most recently appended
\* min(n, 30) points in arrival order.
C1_RingHoldsMostRecent ==
    /\ DOMAIN networkHistory \subseteq ServerIps
    /\ \A ip \in ServerIps :
          LET h == HistoryOf(ip)
              n == Len(appendLog[ip])
              m == Min(n, HistoryCap)
          IN  /\ Len(h) <= HistoryCap
              /\ Len(h) = m
              /\ \A i \in 1..m : h[i] = appendLog[ip][n - m + i]

\* 31 points were appended for one host: its history has 30 entries, ends
\* with the 31st and holds the 1st nowhere
C1_Witness ==
    \E ip \in ServerIps :
        /\ Len(appendLog[ip]) = HistoryCap + 1
        /\ Len(HistoryOf(ip)) = HistoryCap
        /\ HistoryOf(ip)[HistoryCap] = appendLog[ip][HistoryCap + 1]
        /\ \A i \in 1..HistoryCap : HistoryOf(ip)[i] # appendLog[ip][1]

\* C2: the mapping a poll cycle publishes has exactly one entry for every
\* host of the host list, an error status for every host whose request
\* failed, and a cycle in flight holds an entry for every host it is done
\* with, whatever happened to that host (nothing escapes the per-host catch).
C2_CompleteMapping ==
    /\ published # None =>
          /\ DOMAIN published.data = ServerIps
          /\ \A ip \in ServerIps :
                published.outcomes[ip].kind # "ok" => IsError(published.data[ip])
    /\ \A c \in cycles :
          /\ DOMAIN c.newData = {servers[i] : i \in 1..(c.idx - 1)}
          /\ \A ip \in DOMAIN c.newData :
                c.outcomes[ip].kind # "ok" => IsError(c.newData[ip])

\* A cycle published after one host timed out and the other answered null
C2_Witness ==
    /\ published # None
    /\ published.outcomes[servers[1]].kind = "timeout"
    /\ published.outcomes[servers[2]].kind = "nullbody"
    /\ DOMAIN serversData = ServerIps

\* C3: the per-host fetches of a cycle are issued without waiting for one
\* another, so a cycle in which one host timed out and another answered
\* takes no longer than its slowest host (the maximum, not the sum).
C3_CycleBoundedBySlowestHost ==
    published # None =>
        \A a, b \in ServerIps :
            (/\ published.outcomes[a].kind = "timeout"
             /\ published.outcomes[b].kind = "ok")
                => published.elapsed <= published.longest

\* C4: a host whose request was aborted by the 5000 ms timer gets a status
\* that differs from the status of a host whose transport failed.
C4_TimeoutDistinguished ==
    published # None =>
        \A a, b \in ServerIps :
            (/\ published.outcomes[a].kind = "timeout"
             /\ published.outcomes[b].kind = "transport")
                => published.data[a] # published.data[b]

\* C5: a non-2xx response yields the bad-response status ('Failed to
\* fetch'), a transport failure yields the unreachable status ('Connection
\* failed'), and the two differ.
C5_BadResponseAndUnreachable ==
    published # None =>
        /\ \A ip \in ServerIps :
              /\ published.outcomes[ip].kind = "non2xx" =>
                    published.data[ip] = [error |-> "Failed to fetch"]
              /\ published.outcomes[ip].kind = "transport" =>
                    published.data[ip] = [error |-> "Connection failed"]
        /\ \A a, b \in ServerIps :
              (/\ published.outcomes[a].kind = "non2xx"
               /\ published.outcomes[b].kind = "transport")
                  => published.data[a] # published.data[b]

\* The first host answered 500 and the connection to the second was refused
C5_Witness ==
    /\ published # None
    /\ published.outcomes[servers[1]].kind = "non2xx"
    /\ published.outcomes[servers[2]].kind = "transport"
    /\ serversData = published.data

\* C6: the status published for a host that answered is formatServerData of
\* the parsed body, never the body itself.
C6_PublishedIsNormalized ==
    published # None =>
        \A ip \in ServerIps :
            published.outcomes[ip].kind = "ok" =>
                /\ ~formatServerData(published.outcomes[ip].body).threw
                /\ published.data[ip] = formatServerData(published.outcomes[ip].body).val

\* C7: a per-host step of a cycle appends a point exactly when the fetch
\* succeeded and the payload has a network field, and the point carries that
\* field's download and upload.
C7_AppendIffNetworkPresent ==
    lastSettle # None =>
        /\ (lastSettle.appended # <<>>) <=>
              (lastSettle.kind = "ok" /\ "network" \in DOMAIN lastSettle.body)
        /\ lastSettle.appended # <<>> =>
              /\ lastSettle.appended[1].download = lastSettle.body.network.download
              /\ lastSettle.appended[1].upload = lastSettle.body.network.upload

\* C8: a second prune sweep changes nothing, and a sweep over histories that
\* all hold at most 30 entries leaves every history and the set of host keys
\* as they were.
C8_PruneIdempotent ==
    sweeps > 0 =>
        /\ sweeps >= 2 => networkHistory = pruneBefore
        /\ (\A ip \in DOMAIN pruneBefore : Len(pruneBefore[ip]) <= HistoryCap) =>
              /\ DOMAIN networkHistory = DOMAIN pruneBefore
              /\ networkHistory = pruneBefore

\* Two sweeps over a mapping in which a history held more than 30 entries:
\* it now holds the last 30
C8_Witness ==
    /\ sweeps = 2
    /\ \E ip \in DOMAIN networkHistory :
          /\ Len(networkHistory[ip]) = HistoryCap
          /\ networkHistory[ip][1].time # TimeString(1)

\* C9: once the teardown has run, no interval timer is armed.
C9_NoTimerAfterTeardown ==
    ~isMounted => (~mainInterval /\ ~cleanupInterval)

\* C10: formatServerData does not throw on a payload whose temperature
\* object lacks sensor fields or holds null for them: such a field comes out
\* missing (never zero), a numeric field comes out rounded.
C10_MissingSensorsPropagate ==
    (normOut # None /\ IsObject(normIn) /\ SectionsReadable(normIn)) =>
        /\ ~normOut.threw
        /\ \A f \in DOMAIN normOut.val.temperature :
              LET x == Get(normIn.temperature, f)
                  y == normOut.val.temperature[f]
              IN  /\ x \in {Null, Undefined} => y \in {Null, Undefined}
                  /\ IsNumber(x) =>
                        (IsNumber(y) /\ y.v % 10 = 0 /\ Abs(y.v - x.v) <= 5)

\* C11: rounding to 2 decimals is idempotent: formatNumber of formatNumber(x)
\* equals formatNumber(x), for every number x.
C11_FormatNumberIdempotent ==
    \A i \in 2..Len(rounded) :
        /\ IsNumber(rounded[i])
        /\ i >= 3 => rounded[i] = rounded[2]

\* A tie that toFixed rounds down (0.015, whose double lies below it) and one
\* it rounds up (0.005) have been rounded twice
C11_Witness ==
    /\ Len(rounded) = 3
    /\ rounded[1] \in {Num(15), Num(5), Num(-15)}
    /\ rounded[2] # rounded[1]
    /\ rounded[3] = rounded[2]

\* C12: every request of a cycle settles within its 5000 ms timeout: no
\* request is still outstanding after more than 5000 ms (it has been aborted
\* and its host given an error status), so that the cycle goes on to publish.
C12_SettlesWithinTimeout ==
    \A c \in cycles : c.waited <= TimeoutSec

\* C13: the published mapping never goes backwards: a cycle's mapping never
\* replaces the mapping of a cycle that started after it.  Only a replacement
\* that the timing allows is counted: the later cycle started IntervalSec per
\* tick after the earlier one and still finished before it.
C13_PublishedNeverGoesBack ==
    published # None =>
        \/ published.prevId <= published.id
        \/ published.elapsed <=
              published.prevElapsed + (published.prevId - published.id) * IntervalSec

=============================================================================
